---- MODULE Spec2Model ----
(***************************************************************************)
(* A model of src/server.ts: the Slack Events webhook handler (signature   *)
(* verification, request classification, fire-and-forget dispatch) and the *)
(* background task handleReactionAdded (language lookup, message fetch,    *)
(* markup protection, translation, markup restoration, duplicate check,    *)
(* post).  Texts are TLA+ strings; the regular expressions of the source   *)
(* are modelled by scanning operators over those strings.                  *)
(***************************************************************************)
EXTENDS Integers, Sequences, FiniteSets, TLC

VARIABLES
  nreq,     \* number of POST /slack/events requests handled so far
  last,     \* the latest request: its inputs and what handler answered
  status,   \* status[r]: HTTP status answered to request r (0: not yet handled)
  pass,     \* pass[r]: the handleReactionAdded task dispatched by request r
  thread,   \* the messages of the Slack thread, root first (collaborator state)
  mk        \* the markup pipeline on one text: stage, source, protected, restored

vars == <<nreq, last, status, pass, thread, mk>>

(***************************************************************************)
(* Values of the JavaScript runtime.                                       *)
(***************************************************************************)
Undefined == "$undefined"
NaN == [nan |-> TRUE, value |-> 0]
LF == "\n"

(***************************************************************************)
(* String helpers (String.prototype methods and regular-expression         *)
(* primitives used by the source).                                         *)
(***************************************************************************)
CharAt(s, i) == SubSeq(s, i, i)

StartsWith(s, p) == Len(s) >= Len(p) /\ SubSeq(s, 1, Len(p)) = p

EndsWith(s, p) == Len(s) >= Len(p) /\ SubSeq(s, Len(s) - Len(p) + 1, Len(s)) = p

From(s, i) == SubSeq(s, i, Len(s))

\* First index >= from at which pat occurs in s, 0 when there is none.
IndexOf(s, pat, from) ==
  LET hits == {k \in from..(Len(s) - Len(pat) + 1) : SubSeq(s, k, k + Len(pat) - 1) = pat}
  IN IF hits = {} THEN 0 ELSE CHOOSE k \in hits : \A m \in hits : k <= m

Contains(s, pat) == IndexOf(s, pat, 1) # 0

\* The character class [a-z0-9_-] of the emoji shortcode patterns.
ShortcodeChars ==
  {"a","b","c","d","e","f","g","h","i","j","k","l","m","n","o","p","q","r",
   "s","t","u","v","w","x","y","z","0","1","2","3","4","5","6","7","8","9",
   "_","-"}

\* [a-z0-9_-]+ : one or more shortcode characters and nothing else.
IsShortcode(s) ==
  /\ Len(s) >= 1
  /\ \A i \in 1..Len(s) : CharAt(s, i) \in ShortcodeChars

\* .* and .*? match any characters except line terminators.
IsDotRun(s) == ~Contains(s, LF)

(***************************************************************************)
(* Global replace of a delimited pattern, as String.prototype.replace does *)
(* with a /g pattern: scan left to right from the next place the opening   *)
(* delimiter occurs; where the pattern matches there, emit the replacement *)
(* and continue after the match; otherwise copy the text up to and         *)
(* including that character and retry at the next position.                *)
(***************************************************************************)
OpenOf(kind) ==
  CASE kind = "bracket"   -> "<"
    [] kind = "shortcode" -> ":"
    [] kind = "emojiTag"  -> "<emoji>"
    [] kind = "mrkdwnTag" -> "<mrkdwn>"
    [] kind = "ignoreTag" -> "<ignore>"

CloseOf(kind) ==
  CASE kind = "bracket"   -> ">"
    [] kind = "shortcode" -> ":"
    [] kind = "emojiTag"  -> "</emoji>"
    [] kind = "mrkdwnTag" -> "</mrkdwn>"
    [] kind = "ignoreTag" -> "</ignore>"

\* What the capture group between the delimiters must be: (.*?) or ([a-z0-9_-]+).
GroupMatches(kind, inner) ==
  IF kind \in {"shortcode", "emojiTag"} THEN IsShortcode(inner) ELSE IsDotRun(inner)

\* The replacement callback of the protector's first pass: classify the payload
\* of one <...> token by the first rule that matches.
BracketCallback(match) ==
  IF StartsWith(match, "#") \/ StartsWith(match, "@")
    THEN "<mrkdwn>" \o match \o "</mrkdwn>"
  ELSE IF StartsWith(match, "!subteam")
    THEN "@[subteam mention removed]"
  ELSE IF StartsWith(match, "!date")
    THEN "<mrkdwn>" \o match \o "</mrkdwn>"
  ELSE IF StartsWith(match, "!")
    THEN LET bar == IndexOf(match, "|", 2)
             name == IF bar = 0 THEN From(match, 2) ELSE SubSeq(match, 2, bar - 1)
         IN "<ignore>@" \o name \o "</ignore>"
  ELSE IF Contains(match, "|")
    THEN LET bar == IndexOf(match, "|", 1)
         IN "<a href=\"" \o SubSeq(match, 1, bar - 1) \o "\">"
              \o From(match, bar + 1) \o "</a>"
  ELSE "<mrkdwn>" \o match \o "</mrkdwn>"

EmojiCallback(match) == "<emoji>" \o match \o "</emoji>"

RestoreEmojiCallback(match) == ":" \o match \o ":"

RestoreMrkdwnCallback(match) == "<" \o match \o ">"

RestoreIgnoreCallback(match) == match

Callback(kind, inner) ==
  CASE kind = "bracket"   -> BracketCallback(inner)
    [] kind = "shortcode" -> EmojiCallback(inner)
    [] kind = "emojiTag"  -> RestoreEmojiCallback(inner)
    [] kind = "mrkdwnTag" -> RestoreMrkdwnCallback(inner)
    [] kind = "ignoreTag" -> RestoreIgnoreCallback(inner)

RECURSIVE ReplaceAll(_, _, _)
ReplaceAll(kind, s, i) ==
  LET open  == OpenOf(kind)
      close == CloseOf(kind)
      o     == IndexOf(s, open, i)
      j     == IF o # 0 THEN IndexOf(s, close, o + Len(open)) ELSE 0
      inner == SubSeq(s, o + Len(open), j - 1)
  IN IF o = 0 THEN From(s, i)
     ELSE IF j # 0 /\ GroupMatches(kind, inner)
       THEN SubSeq(s, i, o - 1) \o Callback(kind, inner)
              \o ReplaceAll(kind, s, j + Len(close))
       ELSE SubSeq(s, i, o) \o ReplaceAll(kind, s, o + 1)

\* .replace(/(<a href="(?:.*?)">(?:.*?)<\/a>)/g, ...): the whole anchor is one match,
\* split again by the callback into the URL and the display text.
RECURSIVE ReplaceAnchors(_, _)
ReplaceAnchors(s, i) ==
  LET open == "<a href=\""
      o    == IndexOf(s, open, i)
      j    == IF o # 0 THEN IndexOf(s, "\">", o + Len(open)) ELSE 0
      k    == IF j # 0 THEN IndexOf(s, "</a>", j + 2) ELSE 0
      href == SubSeq(s, o + Len(open), j - 1)
      disp == SubSeq(s, j + 2, k - 1)
  IN IF o = 0 THEN From(s, i)
     ELSE IF k # 0 /\ IsDotRun(href) /\ IsDotRun(disp)
       THEN SubSeq(s, i, o - 1) \o ("<" \o href \o "|" \o disp \o ">")
              \o ReplaceAnchors(s, k + 4)
       ELSE SubSeq(s, i, o) \o ReplaceAnchors(s, o + 1)

(***************************************************************************)
(* Markup Protector: targetText of handleReactionAdded.                    *)
(***************************************************************************)
Protect(text) ==
  IF text = Undefined THEN ""
  ELSE ReplaceAll("shortcode", ReplaceAll("bracket", text, 1), 1)

(***************************************************************************)
(* Markup Restorer: translatedText of handleReactionAdded.                 *)
(***************************************************************************)
Restore(text) ==
  LET e == ReplaceAll("emojiTag", text, 1)
      m == ReplaceAll("mrkdwnTag", e, 1)
      a == ReplaceAnchors(m, 1)
  IN ReplaceAll("ignoreTag", a, 1)

(***************************************************************************)
(* The markup pipeline on its own: a source text built from tokens of the  *)
(* classes the protector distinguishes is protected, then restored with no *)
(* translation in between.                                                 *)
(***************************************************************************)
MaxTokens == 3

SourceTokens ==
  { [class |-> "plain",   text |-> "Hi "],
    [class |-> "plain",   text |-> "a>b"],
    [class |-> "mention", text |-> "<@U1>"],
    [class |-> "mention", text |-> "<#C1|dev>"],
    [class |-> "emoji",   text |-> ":smile:"],
    [class |-> "link",    text |-> "<http://x.io|link>"],
    [class |-> "bare",    text |-> "<http://x.io>"],
    [class |-> "bare",    text |-> "<ignore>"],
    [class |-> "bare",    text |-> "</ignore>"],
    [class |-> "subteam", text |-> "<!subteam^S1|@team>"],
    [class |-> "date",    text |-> "<!date^1|today>"],
    [class |-> "special", text |-> "<!channel|all>"] }

TokenSeqs == UNION { [1..n -> SourceTokens] : n \in 0..MaxTokens }

RECURSIVE Concat(_)
Concat(toks) ==
  IF toks = <<>> THEN "" ELSE Head(toks).text \o Concat(Tail(toks))

MkIdle == [stage |-> "idle", classes |-> {}, src |-> "", prot |-> "", rest |-> ""]

MkProtect ==
  /\ mk.stage = "source"
  /\ mk' = [mk EXCEPT !.stage = "protected", !.prot = Protect(mk.src)]
  /\ UNCHANGED <<nreq, last, status, pass, thread>>

MkRestore ==
  /\ mk.stage = "protected"
  /\ mk' = [mk EXCEPT !.stage = "restored", !.rest = Restore(mk.prot)]
  /\ UNCHANGED <<nreq, last, status, pass, thread>>

(***************************************************************************)
(* JSON values as JSON.parse produces them, and property access on them.   *)
(***************************************************************************)
JStr(x) == [t |-> "string", s |-> x]
JNum(x) == [t |-> "number", n |-> x]
JObj(r) == [t |-> "object", o |-> r]
JNull == [t |-> "null"]
JUndefined == [t |-> "undefined"]
TypeError == [t |-> "TypeError"]
SyntaxError == [t |-> "SyntaxError"]

\* v.k : a TypeError on null and undefined, undefined where v has no such property.
Prop(v, k) ==
  IF v.t \in {"null", "undefined", "TypeError"} THEN TypeError
  ELSE IF v.t = "object" /\ k \in DOMAIN v.o THEN v.o[k]
  ELSE JUndefined

(***************************************************************************)
(* parseInt(string) with no radix: leading white space, a sign, an         *)
(* optional 0x prefix, then the longest run of digits; NaN without digits. *)
(***************************************************************************)
DecDigits == "0123456789"
HexDigits == "0123456789abcdef"
HexDigitsUpper == "0123456789ABCDEF"

DigitValue(c, radix) ==
  LET d == IndexOf(DecDigits, c, 1)
      h == IndexOf(HexDigits, c, 1)
      u == IndexOf(HexDigitsUpper, c, 1)
      v == IF d # 0 THEN d - 1 ELSE IF h # 0 THEN h - 1 ELSE IF u # 0 THEN u - 1 ELSE radix
  IN IF c # "" /\ v < radix THEN v ELSE -1

RECURSIVE SkipWhiteSpace(_)
SkipWhiteSpace(s) ==
  IF s # "" /\ CharAt(s, 1) \in {" ", "\t", LF} THEN SkipWhiteSpace(From(s, 2)) ELSE s

\* The value of the digits of s from position i on, after the n digits read so far.
RECURSIVE ParseDigits(_, _, _, _)
ParseDigits(s, i, radix, acc) ==
  IF i <= Len(s) /\ DigitValue(CharAt(s, i), radix) >= 0
    THEN ParseDigits(s, i + 1, radix,
                     [n |-> acc.n + 1,
                      value |-> acc.value * radix + DigitValue(CharAt(s, i), radix)])
    ELSE acc

ParseInt(str) ==
  LET s    == SkipWhiteSpace(str)
      neg  == StartsWith(s, "-")
      u    == IF StartsWith(s, "-") \/ StartsWith(s, "+") THEN From(s, 2) ELSE s
      hex  == StartsWith(u, "0x") \/ StartsWith(u, "0X")
      none == [n |-> 0, value |-> 0]
      mag  == IF hex THEN ParseDigits(u, 3, 16, none) ELSE ParseDigits(u, 1, 10, none)
  IN IF mag.n = 0 THEN NaN
     ELSE [nan |-> FALSE, value |-> IF neg THEN 0 - mag.value ELSE mag.value]

Abs(x) == IF x < 0 THEN 0 - x ELSE x

(***************************************************************************)
(* Signature verification.                                                 *)
(***************************************************************************)
signingSecret == "8f742231b10e"

ReplayWindow == 300

\* Mutant: the age is compared without Math.abs.
TimestampTooOldNoAbs(timestamp, currentTime) ==
  LET t == ParseInt(timestamp)
  IN IF t.nan THEN FALSE ELSE currentTime - t.value > ReplayWindow

\* Math.abs(currentTime - parseInt(timestamp)) > 300; a comparison with NaN is false.
TimestampTooOld(timestamp, currentTime) ==
  LET t == ParseInt(timestamp)
  IN IF t.nan THEN FALSE ELSE Abs(currentTime - t.value) > ReplayWindow

\* HMAC-SHA256 as a reference function of (key, message) to a digest, a sequence
\* of bytes.  The digest here is two bytes wide, and its second byte is below 16,
\* so that every digest has a byte whose hex form needs its leading zero.
Alphabet ==
  "0123456789abcdefghijklmnopqrstuvwxyzABCDEFGHIJKLMNOPQRSTUVWXYZ{}[]\":,._- =|<>@#!/"

AlphabetChars == {CharAt(Alphabet, i) : i \in 1..Len(Alphabet)}

CharCodes == [c \in AlphabetChars |-> IndexOf(Alphabet, c, 1)]

CharCode(c) == IF c \in AlphabetChars THEN CharCodes[c] ELSE 0

RECURSIVE WeightedSum(_, _, _)
WeightedSum(s, lo, hi) ==
  IF lo > hi THEN 0
  ELSE IF lo = hi THEN lo * CharCode(CharAt(s, lo))
  ELSE LET mid == (lo + hi) \div 2
       IN WeightedSum(s, lo, mid) + WeightedSum(s, mid + 1, hi)

Weight(s) == WeightedSum(s, 1, Len(s))

H(key, message) ==
  LET a == Weight(key) + Weight(message)
      b == 31 * a + 7 * Len(message) + Weight(key)
  IN <<a % 256, b % 16>>

\* Number.prototype.toString(16)
RECURSIVE ToString16(_)
ToString16(b) ==
  IF b < 16 THEN CharAt(HexDigits, b + 1)
  ELSE ToString16(b \div 16) \o CharAt(HexDigits, (b % 16) + 1)

\* String.prototype.padStart(targetLength, padString), for a one-character pad
RECURSIVE PadStart(_, _, _)
PadStart(s, targetLength, padString) ==
  IF Len(s) >= targetLength THEN s ELSE PadStart(padString \o s, targetLength, padString)

RECURSIVE Join(_)
Join(parts) == IF parts = <<>> THEN "" ELSE Head(parts) \o Join(Tail(parts))

sigBaseString(timestamp, body) == "v0:" \o timestamp \o ":" \o body

\* Mutant: the bytes are written in hex without padStart.
computedSignatureNoPad(timestamp, body) ==
  LET signatureBytes == H(signingSecret, sigBaseString(timestamp, body))
  IN "v0=" \o Join([i \in 1..Len(signatureBytes) |-> ToString16(signatureBytes[i])])

computedSignature(timestamp, body) ==
  LET signatureBytes == H(signingSecret, sigBaseString(timestamp, body))
  IN "v0=" \o Join([i \in 1..Len(signatureBytes) |->
                       PadStart(ToString16(signatureBytes[i]), 2, "0")])

(***************************************************************************)
(* Request bodies: the raw text Slack sends and the value JSON.parse makes *)
(* of it.  Any other raw text is not JSON.                                 *)
(***************************************************************************)
BodyNull ==
  [raw |-> "null",
   value |-> JNull]

BodyFalse ==
  [raw |-> "false",
   value |-> [t |-> "boolean", b |-> FALSE]]

BodyNumber ==
  [raw |-> "7",
   value |-> JNum(7)]

BodyEmptyObject ==
  [raw |-> "{}",
   value |-> JObj(<<>>)]

BodyOtherType ==
  [raw |-> "{\"type\":\"app_rate_limited\"}",
   value |-> JObj([type |-> JStr("app_rate_limited")])]

BodyChallenge ==
  [raw |-> "{\"type\":\"url_verification\",\"challenge\":\"abc123\"}",
   value |-> JObj([type |-> JStr("url_verification"), challenge |-> JStr("abc123")])]

BodyChallengeWithEvent ==
  [raw |-> "{\"type\":\"url_verification\",\"challenge\":\"xyz\",\"event\":{\"type\":\"reaction_added\",\"reaction\":\"jp\",\"item\":{\"channel\":\"C1\",\"ts\":\"100\"}}}",
   value |-> JObj([type |-> JStr("url_verification"), challenge |-> JStr("xyz"), event |-> JObj([type |-> JStr("reaction_added"), reaction |-> JStr("jp"), item |-> JObj([channel |-> JStr("C1"), ts |-> JStr("100")])])])]

BodyChallengeMissing ==
  [raw |-> "{\"type\":\"url_verification\"}",
   value |-> JObj([type |-> JStr("url_verification")])]

BodyCallbackNoEvent ==
  [raw |-> "{\"type\":\"event_callback\"}",
   value |-> JObj([type |-> JStr("event_callback")])]

BodyCallbackNullEvent ==
  [raw |-> "{\"type\":\"event_callback\",\"event\":null}",
   value |-> JObj([type |-> JStr("event_callback"), event |-> JNull])]

BodyCallbackStringEvent ==
  [raw |-> "{\"type\":\"event_callback\",\"event\":\"ping\"}",
   value |-> JObj([type |-> JStr("event_callback"), event |-> JStr("ping")])]

BodyCallbackMessage ==
  [raw |-> "{\"type\":\"event_callback\",\"event\":{\"type\":\"message\",\"text\":\"hi\"}}",
   value |-> JObj([type |-> JStr("event_callback"), event |-> JObj([type |-> JStr("message"), text |-> JStr("hi")])])]

BodyReactJpRoot ==
  [raw |-> "{\"type\":\"event_callback\",\"event\":{\"type\":\"reaction_added\",\"reaction\":\"jp\",\"item\":{\"channel\":\"C1\",\"ts\":\"100\"}}}",
   value |-> JObj([type |-> JStr("event_callback"), event |-> JObj([type |-> JStr("reaction_added"), reaction |-> JStr("jp"), item |-> JObj([channel |-> JStr("C1"), ts |-> JStr("100")])])])]

BodyReactFlagJpRoot ==
  [raw |-> "{\"type\":\"event_callback\",\"event\":{\"type\":\"reaction_added\",\"reaction\":\"flag-jp\",\"item\":{\"channel\":\"C1\",\"ts\":\"100\"}}}",
   value |-> JObj([type |-> JStr("event_callback"), event |-> JObj([type |-> JStr("reaction_added"), reaction |-> JStr("flag-jp"), item |-> JObj([channel |-> JStr("C1"), ts |-> JStr("100")])])])]

BodyReactJpReply ==
  [raw |-> "{\"type\":\"event_callback\",\"event\":{\"type\":\"reaction_added\",\"reaction\":\"jp\",\"item\":{\"channel\":\"C1\",\"ts\":\"101\"}}}",
   value |-> JObj([type |-> JStr("event_callback"), event |-> JObj([type |-> JStr("reaction_added"), reaction |-> JStr("jp"), item |-> JObj([channel |-> JStr("C1"), ts |-> JStr("101")])])])]

BodyReactUnknown ==
  [raw |-> "{\"type\":\"event_callback\",\"event\":{\"type\":\"reaction_added\",\"reaction\":\"thumbsup\",\"item\":{\"channel\":\"C1\",\"ts\":\"100\"}}}",
   value |-> JObj([type |-> JStr("event_callback"), event |-> JObj([type |-> JStr("reaction_added"), reaction |-> JStr("thumbsup"), item |-> JObj([channel |-> JStr("C1"), ts |-> JStr("100")])])])]

BodyReactNoItem ==
  [raw |-> "{\"type\":\"event_callback\",\"event\":{\"type\":\"reaction_added\",\"reaction\":\"jp\"}}",
   value |-> JObj([type |-> JStr("event_callback"), event |-> JObj([type |-> JStr("reaction_added"), reaction |-> JStr("jp")])])]

BodyReactNoReaction ==
  [raw |-> "{\"type\":\"event_callback\",\"event\":{\"type\":\"reaction_added\",\"item\":{\"channel\":\"C1\",\"ts\":\"100\"}}}",
   value |-> JObj([type |-> JStr("event_callback"), event |-> JObj([type |-> JStr("reaction_added"), item |-> JObj([channel |-> JStr("C1"), ts |-> JStr("100")])])])]

JsonBodies ==
  {BodyNull,
   BodyFalse,
   BodyNumber,
   BodyEmptyObject,
   BodyOtherType,
   BodyChallenge,
   BodyChallengeWithEvent,
   BodyChallengeMissing,
   BodyCallbackNoEvent,
   BodyCallbackNullEvent,
   BodyCallbackStringEvent,
   BodyCallbackMessage,
   BodyReactJpRoot,
   BodyReactFlagJpRoot,
   BodyReactJpReply,
   BodyReactUnknown,
   BodyReactNoItem,
   BodyReactNoReaction}

BodyNotJson == "{\"type\":\"event_callback\""

\* The event callback Slack sends for a reaction added to the root message.
ReactionBody(reaction) ==
  [raw |-> "{\"type\":\"event_callback\",\"event\":{\"type\":\"reaction_added\",\"reaction\":\""
             \o reaction \o "\",\"item\":{\"channel\":\"C1\",\"ts\":\"100\"}}}",
   value |-> JObj([type |-> JStr("event_callback"), event |-> JObj([type |-> JStr("reaction_added"), reaction |-> JStr(reaction), item |-> JObj([channel |-> JStr("C1"), ts |-> JStr("100")])])])]

Reactions ==
  {"jp", "fr", "us", "de", "thumbsup", "",
   "flag-jp", "flag-fr", "flag-us", "flag-de", "flag-thumbsup", "flag-",
   "flag-flag-jp", "jpflag-", "xflag-jp"}

LangBodies == {ReactionBody(r) : r \in Reactions}

ParseableBodies == JsonBodies \cup LangBodies

\* JSON.parse(body)
JSONParse(body) ==
  IF \E b \in ParseableBodies : b.raw = body
    THEN (CHOOSE b \in ParseableBodies : b.raw = body).value
    ELSE SyntaxError

(***************************************************************************)
(* The Slack workspace (collaborator): one channel holding one thread, and *)
(* the answers of the two Web API methods the program calls.               *)
(***************************************************************************)
Channel == "C1"
RootTs == "100"
ReplyTs == "101"

Threw == [threw |-> TRUE, error |-> "", hasMessages |-> FALSE, messages |-> <<>>]
SlackError(e) == [threw |-> FALSE, error |-> e, hasMessages |-> FALSE, messages |-> <<>>]
SlackOk(msgs) == [threw |-> FALSE, error |-> "", hasMessages |-> TRUE, messages |-> msgs]

\* Message i of the thread as the API returns it: a reply carries its root's ts
\* as thread_ts, and so does a root that has replies.
ApiMessage(th, i) ==
  [ts |-> th[i].ts, text |-> th[i].text,
   thread_ts |-> IF i > 1 \/ Len(th) > 1 THEN th[1].ts ELSE Undefined]

\* conversations.replies {channel, ts[, limit: 1, inclusive: true]}
ConversationsReplies(th, channel, ts, limitOne) ==
  IF channel # Channel THEN SlackError("channel_not_found")
  ELSE IF ts = th[1].ts
    THEN SlackOk([i \in 1..(IF limitOne THEN 1 ELSE Len(th)) |-> ApiMessage(th, i)])
  ELSE IF \E i \in 2..Len(th) : th[i].ts = ts
    THEN SlackOk(<<ApiMessage(th, CHOOSE i \in 2..Len(th) : th[i].ts = ts)>>)
  ELSE SlackError("thread_not_found")

PostedTs(th) == "20" \o CharAt(DecDigits, Len(th) + 1)

\* chat.postMessage {channel, text, thread_ts}: the answer and the thread afterwards.
ChatPostMessage(th, channel, text, thread_ts) ==
  IF channel # Channel THEN [answer |-> SlackError("channel_not_found"), thread |-> th]
  ELSE IF text = "" THEN [answer |-> SlackError("no_text"), thread |-> th]
  ELSE [answer |-> SlackOk(<<>>),
        thread |-> Append(th, [ts |-> PostedTs(th), text |-> text])]

(***************************************************************************)
(* The translation service (collaborator): the responses it may give to a  *)
(* request to translate a text.                                            *)
(***************************************************************************)
FetchThrew == [threw |-> TRUE, status |-> 0, hasTranslations |-> FALSE, translations |-> <<>>]
DeeplStatus(n) == [threw |-> FALSE, status |-> n, hasTranslations |-> FALSE, translations |-> <<>>]
DeeplNoResult == [threw |-> FALSE, status |-> 200, hasTranslations |-> FALSE, translations |-> <<>>]
DeeplEmpty == [threw |-> FALSE, status |-> 200, hasTranslations |-> TRUE, translations |-> <<>>]
DeeplOk(text) == [threw |-> FALSE, status |-> 200, hasTranslations |-> TRUE, translations |-> <<text>>]

Bonjour == "Bonjour"

\* The texts the engine may return for a protected text: the text untouched, or
\* a translation of it.
Translations(text) == {text, Bonjour}

(***************************************************************************)
(* allReactionToLang of functions/detect_lang.ts: reaction or country code *)
(* to language code.                                                       *)
(***************************************************************************)
allReactionToLang == [jp |-> "ja", fr |-> "fr", us |-> "en"]

Lookup(key) ==
  IF key \in DOMAIN allReactionToLang THEN allReactionToLang[key] ELSE Undefined

\* Mutant: every reaction is looked up under its full name.
ResolveLangFullName(reaction) == Lookup(reaction)

\* lines 58-67 of handleReactionAdded
ResolveLang(reaction) ==
  IF StartsWith(reaction, "flag-") THEN Lookup(From(reaction, 6)) ELSE Lookup(reaction)

(***************************************************************************)
(* handleReactionAdded: one orchestration pass.  pc is the await the task  *)
(* is suspended at, or its terminal state; calls lists the collaborator    *)
(* calls the task has issued, in order.                                    *)
(***************************************************************************)
Str(v) == IF v.t = "string" THEN v.s ELSE Undefined

NoPass ==
  [pc |-> "none", why |-> "", reaction |-> "", channelId |-> "", messageTs |-> "",
   lang |-> "", messageResponse |-> SlackOk(<<>>), threadTs |-> "",
   repliesTs |-> "", replies |-> SlackOk(<<>>), targetText |-> "",
   deeplResponse |-> DeeplStatus(0), translatedText |-> "",
   postedText |-> "", postedThreadTs |-> "", calls |-> <<>>]

Terminal == {"aborted", "skipped", "posted"}

\* The task ends early: by a return (why names the log line) or in its catch
\* block ("exception").  Its locals are gone; the calls it made are remembered.
Aborted(p, why) == [NoPass EXCEPT !.pc = "aborted", !.why = why, !.calls = p.calls]

\* Mutant: the task goes on without a language.
handleReactionAddedAnyLang(event) ==
  LET reaction  == Prop(event, "reaction")
      item      == Prop(event, "item")
      channelId == Prop(item, "channel")
      messageTs == Prop(item, "ts")
  IN IF channelId = TypeError \/ reaction.t # "string"
       THEN Aborted(NoPass, "exception")
     ELSE [NoPass EXCEPT !.pc = "awaitMessage",
                         !.reaction = reaction.s, !.channelId = Str(channelId),
                         !.messageTs = Str(messageTs), !.lang = ResolveLang(reaction.s),
                         !.calls = <<"fetchMessage">>]

\* The task from its call to its first await (lines 51-80), or to its end when it
\* returns or throws before that.
handleReactionAdded(event) ==
  LET reaction  == Prop(event, "reaction")
      item      == Prop(event, "item")
      channelId == Prop(item, "channel")
      messageTs == Prop(item, "ts")
      lang      == ResolveLang(reaction.s)
  IN IF channelId = TypeError \/ reaction.t # "string"
       THEN Aborted(NoPass, "exception")
     ELSE IF lang = Undefined \/ lang = ""
       THEN Aborted(NoPass, "no language")
     ELSE [NoPass EXCEPT !.pc = "awaitMessage",
                         !.reaction = reaction.s, !.channelId = Str(channelId),
                         !.messageTs = Str(messageTs), !.lang = lang,
                         !.calls = <<"fetchMessage">>]

\* Mutant: the thread is always the one of the message's own timestamp.
AfterMessageOwnTs(p, res) ==
  IF res.threw THEN Aborted(p, "exception")
  ELSE IF res.error # "" THEN Aborted(p, "fetch error")
  ELSE IF ~res.hasMessages \/ Len(res.messages) = 0 THEN Aborted(p, "no message")
  ELSE [p EXCEPT !.pc = "awaitReplies", !.messageResponse = res,
                 !.threadTs = p.messageTs, !.repliesTs = p.messageTs,
                 !.calls = Append(@, "fetchReplies")]

\* lines 82-99: the message fetch has returned (or thrown).
AfterMessage(p, res) ==
  IF res.threw THEN Aborted(p, "exception")
  ELSE IF res.error # "" THEN Aborted(p, "fetch error")
  ELSE IF ~res.hasMessages \/ Len(res.messages) = 0 THEN Aborted(p, "no message")
  ELSE LET targetMessage == res.messages[1]
           threadTs == IF targetMessage.thread_ts \notin {Undefined, ""}
                         THEN targetMessage.thread_ts ELSE p.messageTs
       IN [p EXCEPT !.pc = "awaitReplies", !.messageResponse = res,
                    !.threadTs = threadTs, !.repliesTs = threadTs,
                    !.calls = Append(@, "fetchReplies")]

\* Mutant: a throw of the replies fetch is not caught and leaves the task rejected.
AfterRepliesUncaught(p, res) ==
  IF res.threw THEN [p EXCEPT !.pc = "rejected"]
  ELSE [p EXCEPT !.pc = "awaitTranslate", !.replies = res,
                 !.targetText = Protect(p.messageResponse.messages[1].text),
                 !.calls = Append(@, "translate")]

\* lines 101-158: the thread replies have returned; the text is protected and the
\* translation request sent.
AfterReplies(p, res) ==
  IF res.threw THEN Aborted(p, "exception")
  ELSE [p EXCEPT !.pc = "awaitTranslate", !.replies = res,
                 !.targetText = Protect(p.messageResponse.messages[1].text),
                 !.calls = Append(@, "translate")]

\* Mutant: the source message, first of the messages read, is not compared.
AlreadyPostedSkipsRoot(replies, translatedText) ==
  /\ replies.hasMessages
  /\ \E i \in 2..Len(replies.messages) : replies.messages[i].text = translatedText

\* Mutant: only the first of the messages read is compared.
AlreadyPostedFirstOnly(replies, translatedText) ==
  /\ replies.hasMessages
  /\ Len(replies.messages) > 0
  /\ replies.messages[1].text = translatedText

\* Mutant: no message is compared.
AlreadyPostedNever(replies, translatedText) == FALSE

\* lines 196-204: some message of the replies read has the translated text.
AlreadyPosted(replies, translatedText) ==
  /\ replies.hasMessages
  /\ \E i \in 1..Len(replies.messages) : replies.messages[i].text = translatedText

\* Mutant: the replies of the thread are read anew once the translation is back.
AfterTranslateRereads(p, res) ==
  IF res.threw THEN Aborted(p, "exception")
  ELSE IF res.status # 200 THEN Aborted(p, "deepl status")
  ELSE IF ~res.hasTranslations \/ Len(res.translations) = 0
    THEN Aborted(p, "no translation")
  ELSE LET translatedText == Restore(res.translations[1])
           replies == ConversationsReplies(thread, p.channelId, p.threadTs, FALSE)
       IN IF AlreadyPosted(replies, translatedText)
            THEN [p EXCEPT !.pc = "skipped", !.why = "already posted",
                           !.deeplResponse = res, !.translatedText = translatedText]
            ELSE [p EXCEPT !.pc = "awaitPost", !.deeplResponse = res,
                           !.translatedText = translatedText,
                           !.postedText = translatedText,
                           !.postedThreadTs = p.threadTs,
                           !.calls = Append(@, "postMessage")]

\* lines 160-211: the translation has returned; the text is restored, compared
\* with the replies read earlier, and the post request sent.
AfterTranslate(p, res) ==
  IF res.threw THEN Aborted(p, "exception")
  ELSE IF res.status # 200 THEN Aborted(p, "deepl status")
  ELSE IF ~res.hasTranslations \/ Len(res.translations) = 0
    THEN Aborted(p, "no translation")
  ELSE LET translatedText == Restore(res.translations[1])
       IN IF AlreadyPosted(p.replies, translatedText)
            THEN [p EXCEPT !.pc = "skipped", !.why = "already posted",
                           !.deeplResponse = res, !.translatedText = translatedText]
            ELSE [p EXCEPT !.pc = "awaitPost", !.deeplResponse = res,
                           !.translatedText = translatedText,
                           !.postedText = translatedText,
                           !.postedThreadTs = p.threadTs,
                           !.calls = Append(@, "postMessage")]

\* Mutant: a post that Slack answers with an error is sent again.
AfterPostRetries(p, res) ==
  IF res.threw THEN Aborted(p, "exception")
  ELSE IF res.error # "" THEN [p EXCEPT !.calls = Append(@, "postMessage")]
  ELSE [p EXCEPT !.pc = "posted", !.why = "posted"]

\* lines 207-216: the post has returned (or thrown); its answer is not looked at.
AfterPost(p, res) ==
  IF res.threw THEN Aborted(p, "exception")
  ELSE [p EXCEPT !.pc = "posted", !.why = "posted"]

(***************************************************************************)
(* handler: POST /slack/events.                                            *)
(***************************************************************************)
Null == "$null"

Response(code, text, log) ==
  [status |-> code, body |-> text, log |-> log, parsed |-> FALSE,
   dispatched |-> FALSE, event |-> JUndefined]

\* Mutant: the challenge request is acknowledged like any other.
ResponseBodyOk(v) == "OK"

\* new Response(payload.challenge, ...): the body text of the response
ResponseBody(v) == IF v.t = "string" THEN v.s ELSE ""

\* Mutant: event?.type, so a missing event is no error.
EventCallbackOptional(event) ==
  LET type == IF event.t \in {"null", "undefined"} THEN JUndefined ELSE Prop(event, "type")
  IN [Response(200, "OK", "") EXCEPT !.parsed = TRUE,
        !.dispatched = (type = JStr("reaction_added")),
        !.event = IF type = JStr("reaction_added") THEN event ELSE JUndefined]

\* Mutant: the task is not async and has no try/catch, so what it throws before
\* its first await reaches the handler's catch block.
EventCallbackSync(event) ==
  LET type == Prop(event, "type")
      threw == type = JStr("reaction_added") /\ handleReactionAdded(event).why = "exception"
  IN IF type = TypeError \/ threw
       THEN [Response(500, "Internal Server Error", "Error processing request")
               EXCEPT !.parsed = TRUE, !.dispatched = threw,
                      !.event = IF threw THEN event ELSE JUndefined]
     ELSE [Response(200, "OK", "") EXCEPT !.parsed = TRUE,
             !.dispatched = (type = JStr("reaction_added")),
             !.event = IF type = JStr("reaction_added") THEN event ELSE JUndefined]

\* lines 283-295: the answer to an event callback, and the event handed to the
\* background task when it is a reaction_added event
EventCallback(event) ==
  LET type == Prop(event, "type")
  IN IF type = TypeError
       THEN [Response(500, "Internal Server Error", "Error processing request")
               EXCEPT !.parsed = TRUE]
     ELSE [Response(200, "OK", "") EXCEPT !.parsed = TRUE,
             !.dispatched = (type = JStr("reaction_added")),
             !.event = IF type = JStr("reaction_added") THEN event ELSE JUndefined]

\* lines 272-301: a verified request is parsed and classified
\* Mutant: payload?.type, so that the value null is no error.
ClassifyOptional(body) ==
  LET payload == JSONParse(body)
      type    == IF payload = JNull THEN JUndefined ELSE Prop(payload, "type")
  IN IF payload = SyntaxError
       THEN Response(500, "Internal Server Error", "Error processing request")
     ELSE IF type = JStr("url_verification")
       THEN [Response(200, ResponseBody(Prop(payload, "challenge")), "")
               EXCEPT !.parsed = TRUE]
     ELSE IF type = JStr("event_callback")
       THEN EventCallback(Prop(payload, "event"))
     ELSE [Response(200, "OK", "") EXCEPT !.parsed = TRUE]

Classify(body) ==
  LET payload == JSONParse(body)
      type    == Prop(payload, "type")
  IN IF payload = SyntaxError
       THEN Response(500, "Internal Server Error", "Error processing request")
     ELSE IF type = TypeError
       THEN [Response(500, "Internal Server Error", "Error processing request")
               EXCEPT !.parsed = TRUE]
     ELSE IF type = JStr("url_verification")
       THEN [Response(200, ResponseBody(Prop(payload, "challenge")), "")
               EXCEPT !.parsed = TRUE]
     ELSE IF type = JStr("event_callback")
       THEN EventCallback(Prop(payload, "event"))
     ELSE [Response(200, "OK", "") EXCEPT !.parsed = TRUE]

\* lines 236-239: !timestamp || !signature
MissingHeaders(timestamp, signature) ==
  timestamp \in {Null, ""} \/ signature \in {Null, ""}

\* Mutant: the body is parsed before the request is verified.
handlerParsesFirst(req, currentTime) ==
  IF JSONParse(req.body) = SyntaxError
    THEN Response(500, "Internal Server Error", "Error processing request")
  ELSE IF MissingHeaders(req.timestamp, req.signature)
    THEN Response(401, "Unauthorized", "Missing Slack signature headers")
  ELSE IF TimestampTooOld(req.timestamp, currentTime)
    THEN Response(401, "Unauthorized", "Request timestamp too old")
  ELSE IF req.signature # computedSignature(req.timestamp, req.body)
    THEN Response(401, "Unauthorized", "Invalid Slack request signature")
  ELSE Classify(req.body)

\* lines 229-302
handler(req, currentTime) ==
  IF MissingHeaders(req.timestamp, req.signature)
    THEN Response(401, "Unauthorized", "Missing Slack signature headers")
  ELSE IF TimestampTooOld(req.timestamp, currentTime)
    THEN Response(401, "Unauthorized", "Request timestamp too old")
  ELSE IF req.signature # computedSignature(req.timestamp, req.body)
    THEN Response(401, "Unauthorized", "Invalid Slack request signature")
  ELSE Classify(req.body)

(***************************************************************************)
(* Actions.                                                                *)
(***************************************************************************)
NoRequest ==
  [req |-> [timestamp |-> Null, signature |-> Null, body |-> ""], now |-> 0,
   resp |-> Response(0, "", "")]

\* One request is received and answered; a reaction_added event starts its task,
\* which runs up to its first await before the handler returns.
HandleRequest(req, currentTime) ==
  LET resp == handler(req, currentTime)
  IN /\ nreq' = nreq + 1
     /\ last' = [req |-> req, now |-> currentTime, resp |-> resp]
     /\ status' = Append(status, resp.status)
     /\ pass' = Append(pass, IF resp.dispatched THEN handleReactionAdded(resp.event)
                             ELSE NoPass)
     /\ UNCHANGED <<thread, mk>>

MessageReturns(r, res) ==
  /\ pass[r].pc = "awaitMessage"
  /\ pass' = [pass EXCEPT ![r] = AfterMessage(@, res)]
  /\ UNCHANGED <<nreq, last, status, thread, mk>>

RepliesReturns(r, res) ==
  /\ pass[r].pc = "awaitReplies"
  /\ pass' = [pass EXCEPT ![r] = AfterReplies(@, res)]
  /\ UNCHANGED <<nreq, last, status, thread, mk>>

TranslateReturns(r, res) ==
  /\ pass[r].pc = "awaitTranslate"
  /\ pass' = [pass EXCEPT ![r] = AfterTranslate(@, res)]
  /\ UNCHANGED <<nreq, last, status, thread, mk>>

\* The post reaches Slack, which answers (and, when it accepts, adds the reply to
\* the thread), or the request fails on the way.
PostReturns(r, outcome) ==
  /\ pass[r].pc = "awaitPost"
  /\ LET done == ChatPostMessage(thread, pass[r].channelId, pass[r].postedText,
                                 pass[r].postedThreadTs)
     IN IF outcome = "answered"
          THEN /\ thread' = done.thread
               /\ pass' = [pass EXCEPT ![r] = AfterPost(@, done.answer)]
        ELSE IF outcome = "ratelimited"
          THEN /\ thread' = thread
               /\ pass' = [pass EXCEPT ![r] = AfterPost(@, SlackError("ratelimited"))]
        ELSE /\ thread' = thread
             /\ pass' = [pass EXCEPT ![r] = AfterPost(@, Threw)]
  /\ UNCHANGED <<nreq, last, status, mk>>

\* What the collaborators may answer to the calls in flight.
MessageOutcomes(r) ==
  {Threw, SlackError("ratelimited"), SlackOk(<<>>),
   ConversationsReplies(thread, pass[r].channelId, pass[r].messageTs, TRUE)}

RepliesOutcomes(r) ==
  {Threw, SlackError("ratelimited"),
   ConversationsReplies(thread, pass[r].channelId, pass[r].repliesTs, FALSE)}

TranslateOutcomes(r) ==
  {FetchThrew, DeeplStatus(456), DeeplNoResult, DeeplEmpty}
    \cup {DeeplOk(t) : t \in Translations(pass[r].targetText)}

PostOutcomes == {"answered", "ratelimited", "threw"}

(***************************************************************************)
(* The environment: what Slack sends.  Slack signs a request with the      *)
(* shared secret: "v0=" and the lowercase hex of the digest, two digits a  *)
(* byte.                                                                   *)
(***************************************************************************)
HexByte(b) == CharAt(HexDigits, (b \div 16) + 1) \o CharAt(HexDigits, (b % 16) + 1)

SlackSignature(timestamp, body) ==
  LET digest == H(signingSecret, "v0:" \o timestamp \o ":" \o body)
  IN "v0=" \o Join([i \in 1..Len(digest) |-> HexByte(digest[i])])

Signed(timestamp, body) ==
  [timestamp |-> timestamp, signature |-> SlackSignature(timestamp, body), body |-> body]

Now0 == 1000

\* Requests of the event flow: reaction events signed by Slack at the current
\* time, and one forged request.
EventBodies ==
  {BodyReactJpRoot.raw, BodyReactJpReply.raw, BodyReactUnknown.raw, BodyReactNoItem.raw}

EventRequests ==
  {Signed("1000", body) : body \in EventBodies}
    \cup {[timestamp |-> "1000", signature |-> "v0=0000", body |-> BodyReactJpRoot.raw]}

RootTexts == {"Hello <@U1> :smile:", Bonjour}

InitialThreads ==
  { <<[ts |-> RootTs, text |-> t]>> : t \in RootTexts }
    \cup { <<[ts |-> RootTs, text |-> t], [ts |-> ReplyTs, text |-> Bonjour]>> : t \in RootTexts }
    \cup { <<[ts |-> RootTs, text |-> "Hello <@U1> :smile:"], [ts |-> ReplyTs, text |-> "Hi :smile:"]>> }

MaxRequests == 2

Init ==
  /\ nreq = 0
  /\ last = NoRequest
  /\ status = <<>>
  /\ pass = <<>>
  /\ thread \in InitialThreads
  /\ mk = MkIdle

Receive ==
  /\ nreq < MaxRequests
  /\ \E req \in EventRequests : HandleRequest(req, Now0)

Message == \E r \in 1..Len(pass) : \E res \in MessageOutcomes(r) : MessageReturns(r, res)

\* The request fails on the way, or Slack answers it.
Replies ==
  \E r \in 1..Len(pass) :
    \/ RepliesReturns(r, Threw)
    \/ \E res \in RepliesOutcomes(r) \ {Threw} : RepliesReturns(r, res)

Translate == \E r \in 1..Len(pass) : \E res \in TranslateOutcomes(r) : TranslateReturns(r, res)

Post == \E r \in 1..Len(pass) : \E outcome \in PostOutcomes : PostReturns(r, outcome)

Next == Receive \/ Message \/ Replies \/ Translate \/ Post

Spec == Init /\ [][Next]_vars

(***************************************************************************)
(* The HTTP boundary on its own: requests with every kind of timestamp     *)
(* header, signature header and body, received at different times.         *)
(***************************************************************************)
\* Number to decimal text, as Slack writes the timestamp header.
RECURSIVE ToDecimal(_)
ToDecimal(n) ==
  IF n < 0 THEN "-" \o ToDecimal(0 - n)
  ELSE IF n < 10 THEN CharAt(DecDigits, n + 1)
  ELSE ToDecimal(n \div 10) \o CharAt(DecDigits, (n % 10) + 1)

Timestamps == {699, 700, 1000, 1300, 1301}

CurrentTimes == {1000, 1001}

TimestampHeaders == {ToDecimal(t) : t \in Timestamps} \cup {Null, "", "abc", "1000x"}

\* The last character of a signature replaced by another hex digit.
FlipLast(sig) ==
  SubSeq(sig, 1, Len(sig) - 1) \o (IF EndsWith(sig, "0") THEN "1" ELSE "0")

\* The hex digits of a signature in upper case.
UpperHex(sig) ==
  Join([i \in 1..Len(sig) |->
          LET h == IndexOf(HexDigits, CharAt(sig, i), 1)
          IN IF i > 3 /\ h # 0 THEN CharAt(HexDigitsUpper, h) ELSE CharAt(sig, i)])

\* The signature headers tried with a timestamp header and a body.
SignatureHeaders(timestamp, body) ==
  LET good == SlackSignature(IF timestamp = Null THEN "" ELSE timestamp, body)
  IN {Null, good, FlipLast(good), UpperHex(good), From(good, 4)}

AuthBodies == {BodyNotJson, BodyReactJpRoot.raw}

Bodies == {b.raw : b \in JsonBodies} \cup {BodyNotJson}

HttpRequests ==
  UNION { {[timestamp |-> ts, signature |-> sig, body |-> body] :
             sig \in SignatureHeaders(ts, body)} :
          ts \in TimestampHeaders, body \in AuthBodies }
  \cup {Signed("1000", body) : body \in Bodies}

MaxHttpRequests == 1

InitHttp ==
  /\ nreq = 0
  /\ last = NoRequest
  /\ status = <<>>
  /\ pass = <<>>
  /\ thread = <<[ts |-> RootTs, text |-> "Hello <@U1> :smile:"]>>
  /\ mk = MkIdle

\* A request and the time of the server's clock when it arrives: every request
\* at the time Slack signed the genuine ones, and the genuine requests of each
\* timestamp a second later as well.
Arrivals ==
  {<<req, Now0>> : req \in HttpRequests}
    \cup {<<Signed(ToDecimal(t), BodyReactJpRoot.raw), now>> :
             t \in Timestamps, now \in CurrentTimes}

ReceiveHttp ==
  /\ nreq < MaxHttpRequests
  /\ \E a \in Arrivals : HandleRequest(a[1], a[2])

NextHttp == ReceiveHttp \/ Message \/ Replies \/ Translate \/ Post

SpecHttp == InitHttp /\ [][NextHttp]_vars

(***************************************************************************)
(* Repeated events handled one after another: the same reaction on the     *)
(* same message, each event arriving after the task of the one before has  *)
(* ended, every collaborator call succeeding, and the translation service  *)
(* giving the same text every time.                                        *)
(***************************************************************************)
MaxSeqRequests == 3

SeqBodies == {BodyReactJpRoot.raw, BodyReactFlagJpRoot.raw, BodyReactJpReply.raw}

AllEnded == \A r \in 1..Len(pass) : pass[r].pc \in Terminal

ReceiveSeq ==
  /\ nreq < MaxSeqRequests
  /\ AllEnded
  /\ \E body \in SeqBodies :
       /\ nreq > 0 => last.req.body = body
       /\ HandleRequest(Signed("1000", body), Now0)

MessageSeq ==
  \E r \in 1..Len(pass) :
    LET answer == ConversationsReplies(thread, pass[r].channelId, pass[r].messageTs, TRUE)
    IN answer.error = "" /\ MessageReturns(r, answer)

RepliesSeq ==
  \E r \in 1..Len(pass) :
    LET answer == ConversationsReplies(thread, pass[r].channelId, pass[r].repliesTs, FALSE)
    IN answer.error = "" /\ RepliesReturns(r, answer)

TranslateSeq ==
  \E r \in 1..Len(pass) : \E t \in Translations(pass[r].targetText) :
    /\ \A q \in 1..(r - 1) :
         pass[q].pc \in {"skipped", "posted"} => pass[q].deeplResponse = DeeplOk(t)
    /\ TranslateReturns(r, DeeplOk(t))

PostSeq == \E r \in 1..Len(pass) : PostReturns(r, "answered")

NextSeq == ReceiveSeq \/ MessageSeq \/ RepliesSeq \/ TranslateSeq \/ PostSeq

SpecSeq == Init /\ [][NextSeq]_vars

(***************************************************************************)
(* The markup pipeline on its own.                                         *)
(***************************************************************************)
InitMarkup ==
  /\ nreq = 0
  /\ last = NoRequest
  /\ status = <<>>
  /\ pass = <<>>
  /\ thread = <<[ts |-> RootTs, text |-> ""]>>
  /\ mk \in { [stage |-> "source", classes |-> {toks[i].class : i \in DOMAIN toks},
               src |-> Concat(toks), prot |-> "", rest |-> ""] : toks \in TokenSeqs }

NextMarkup == MkProtect \/ MkRestore

SpecMarkup == InitMarkup /\ [][NextMarkup]_vars

(***************************************************************************)
(* Properties of the HTTP boundary (SpecHttp).  They speak of the latest   *)
(* request through what Slack sent: the integer its timestamp header is    *)
(* the decimal text of, and the signature Slack computes for it.           *)
(***************************************************************************)
Range(f) == {f[i] : i \in DOMAIN f}

IntegerHeader(ts) == \E t \in Timestamps : ts = ToDecimal(t)

IntegerOf(ts) == CHOOSE t \in Timestamps : ts = ToDecimal(t)

OutsideWindow(ts, now) == IntegerHeader(ts) /\ Abs(now - IntegerOf(ts)) > 300

\* The latest request is a genuine one: both headers present, an integer timestamp
\* inside the window, the signature Slack computes.
Genuine ==
  /\ nreq > 0
  /\ last.req.timestamp # Null /\ last.req.signature # Null
  /\ IntegerHeader(last.req.timestamp)
  /\ ~OutsideWindow(last.req.timestamp, last.now)
  /\ last.req.signature = SlackSignature(last.req.timestamp, last.req.body)

\* C1: a request whose timestamp header or signature header is missing, whose
\* timestamp is outside the replay window, or whose signature header is not the
\* computed signature is answered 401 "Unauthorized"; its body is never parsed, no
\* task is dispatched for it, and no collaborator call is ever made for it.
C1_UnauthorizedStopsProcessing ==
  /\ ( /\ nreq > 0
       /\ \/ last.req.timestamp = Null
          \/ last.req.signature = Null
          \/ OutsideWindow(last.req.timestamp, last.now)
          \/ last.req.signature # SlackSignature(last.req.timestamp, last.req.body) )
     => /\ last.resp.status = 401 /\ last.resp.body = "Unauthorized"
        /\ ~last.resp.parsed /\ ~last.resp.dispatched
        /\ status[nreq] = 401
  /\ \A r \in 1..Len(status) : status[r] = 401 => pass[r] = NoPass

C1_Witness ==
  /\ nreq > 0
  /\ last.req.body = BodyNotJson
  /\ last.req.timestamp = "1000" /\ last.now = 1000
  /\ last.req.signature = FlipLast(SlackSignature("1000", BodyNotJson))
  /\ last.resp.status = 401

\* C2: inside the replay window, a request passes verification if and only if its
\* signature header is exactly "v0=" followed by the lowercase two-digit hex of
\* H(secret, "v0:" + timestamp + ":" + body).
C2_AcceptsExactlySlackSignature ==
  ( /\ nreq > 0
    /\ last.req.timestamp # Null /\ last.req.signature # Null
    /\ IntegerHeader(last.req.timestamp)
    /\ ~OutsideWindow(last.req.timestamp, last.now) )
  => ( last.resp.status # 401
         <=> last.req.signature = SlackSignature(last.req.timestamp, last.req.body) )

C2_Witness ==
  /\ Genuine
  /\ last.req.timestamp = "1300" /\ last.now = 1000
  /\ last.req.body = BodyReactJpRoot.raw
  /\ last.resp.status = 200

\* C3: with an integer timestamp header t, |now - t| > 300 is answered 401 even
\* with the right signature, and |now - t| <= 300 (300 itself and future
\* timestamps included) is not rejected by the replay-window guard.
C3_ReplayWindow ==
  (nreq > 0 /\ last.req.timestamp # Null /\ IntegerHeader(last.req.timestamp))
  => LET t == IntegerOf(last.req.timestamp)
     IN /\ Abs(last.now - t) > 300 => last.resp.status = 401
        /\ Abs(last.now - t) <= 300 => last.resp.log # "Request timestamp too old"

C3_Witness ==
  /\ nreq > 0
  /\ last.req.timestamp = "1301" /\ last.now = 1000
  /\ last.req.signature = SlackSignature("1301", last.req.body)
  /\ last.resp.status = 401
  /\ last.resp.log = "Request timestamp too old"

ChallengeBodies == {BodyChallenge, BodyChallengeWithEvent, BodyChallengeMissing}

\* C6: a genuine request of type url_verification is answered 200 with the
\* challenge as body, and dispatches nothing, whatever else the body carries.
C6_ChallengeEchoed ==
  \A b \in ChallengeBodies :
    (last.req.body = b.raw /\ Genuine)
    => /\ last.resp.status = 200
       /\ "challenge" \in DOMAIN b.value.o => last.resp.body = b.value.o.challenge.s
       /\ ~last.resp.dispatched
       /\ pass[nreq] = NoPass

C6_Witness ==
  /\ Genuine
  /\ last.req.body = BodyChallengeWithEvent.raw
  /\ last.resp.status = 200 /\ last.resp.body = "xyz"
  /\ pass[nreq] = NoPass

ReactionBodies ==
  {BodyReactJpRoot, BodyReactFlagJpRoot, BodyReactJpReply, BodyReactUnknown,
   BodyReactNoItem, BodyReactNoReaction}

EventlessBodies == {BodyCallbackNoEvent, BodyCallbackNullEvent}

CallbackBodies ==
  ReactionBodies \cup EventlessBodies \cup {BodyCallbackStringEvent, BodyCallbackMessage}

\* C7 as stated: every genuine request of type event_callback is answered 200 "OK"
\* and dispatches a task exactly when event.type is reaction_added, for every shape
\* of the rest of the body, a body with no event field included.
C7_AlwaysOk ==
  \A b \in CallbackBodies :
    (last.req.body = b.raw /\ Genuine)
    => /\ last.resp.status = 200 /\ last.resp.body = "OK"
       /\ last.resp.dispatched <=> b \in ReactionBodies

\* C7 as amended: a genuine request of type event_callback whose event field is
\* present and not null is answered 200 "OK" and dispatches a task exactly when
\* event.type is reaction_added; with no event field, or a null one, it is answered
\* 500 "Internal Server Error" and dispatches nothing.
C7_OkUnlessEventless ==
  \A b \in CallbackBodies :
    (last.req.body = b.raw /\ Genuine)
    => /\ IF b \in EventlessBodies
            THEN /\ last.resp.status = 500
                 /\ last.resp.body = "Internal Server Error"
            ELSE /\ last.resp.status = 200
                 /\ last.resp.body = "OK"
       /\ last.resp.dispatched <=> b \in ReactionBodies
       /\ pass[nreq] # NoPass <=> b \in ReactionBodies

C7_Witness ==
  /\ Genuine
  /\ last.req.body = BodyCallbackNoEvent.raw
  /\ last.resp.status = 500
  /\ pass[nreq] = NoPass

(***************************************************************************)
(* Reactions of every name on the root message, one event at a time.       *)
(***************************************************************************)
MaxLangRequests == 1

ReceiveLang ==
  /\ nreq < MaxLangRequests
  /\ \E r \in Reactions : HandleRequest(Signed("1000", ReactionBody(r).raw), Now0)

NextLang == ReceiveLang \/ Message \/ Replies \/ Translate \/ Post

SpecLang == Init /\ [][NextLang]_vars

(***************************************************************************)
(* A slow translation: the translation of a pass comes back only when the  *)
(* passes of all earlier requests have ended.                              *)
(***************************************************************************)
TranslateSlow ==
  \E r \in 1..Len(pass) : \E res \in TranslateOutcomes(r) :
    /\ \A q \in 1..(r - 1) : pass[q].pc \in Terminal
    /\ TranslateReturns(r, res)

NextSlow == Receive \/ Message \/ Replies \/ TranslateSlow \/ Post

SpecSlow == Init /\ [][NextSlow]_vars

(***************************************************************************)
(* Every collaborator call eventually returns or fails.                    *)
(***************************************************************************)
CallsReturn ==
  /\ WF_vars(Message) /\ WF_vars(Replies) /\ WF_vars(Translate) /\ WF_vars(Post)

SpecFair == Spec /\ CallsReturn

(***************************************************************************)
(* Properties of the orchestration passes (Spec).                          *)
(***************************************************************************)
Passes == 1..Len(pass)

\* Some message of the replies the pass read has text t.
ReadHas(p, t) ==
  \E i \in 1..Len(p.replies.messages) : p.replies.messages[i].text = t

\* C4: a pass never posts when a message of the thread replies it read has text
\* exactly equal to its restored translated text: it ends as skipped, with no post
\* and without an error.
C4_NoPostWhenAlreadyThere ==
  \A r \in Passes :
    ( /\ pass[r].pc \in {"awaitPost", "posted", "skipped"}
      /\ ReadHas(pass[r], pass[r].translatedText) )
    => /\ pass[r].pc = "skipped"
       /\ pass[r].why = "already posted"
       /\ "postMessage" \notin Range(pass[r].calls)

C4_Witness ==
  \E r \in Passes :
    /\ pass[r].pc = "skipped"
    /\ pass[r].translatedText = Bonjour
    /\ Len(pass[r].replies.messages) >= 2
    /\ pass[r].replies.messages[2].text = Bonjour
    /\ pass[r].replies.messages[1].text # Bonjour

\* C8: a reaction_added event callback is answered 200 "OK" when its task has only
\* started, and whatever the task comes to (lookup miss, missing event fields,
\* collaborator error, exception, skip or post) the answer stays 200.
C8_AnswerIndependentOfTask ==
  /\ \A r \in Passes : pass[r].pc # "none" => status[r] = 200
  /\ (nreq > 0 /\ last.resp.dispatched)
       => /\ last.resp.status = 200 /\ last.resp.body = "OK"
          /\ pass[nreq].pc # "none"

C8_Witness ==
  \E r \in Passes :
    /\ pass[r].pc = "aborted" /\ pass[r].why = "exception" /\ pass[r].calls = <<>>
    /\ status[r] = 200

\* C9: a pass posts only if the reaction resolved to a language, the message fetch
\* returned no error and at least one message, and the translation call returned
\* status 200 with a non-empty translations list.  With no language no collaborator
\* call is made; with a failed or empty message fetch no translation call and no
\* post are made; with a failed or empty translation no post is made.
C9_PostOnlyAfterEverySuccess ==
  \A r \in Passes :
    LET p == pass[r]
    IN /\ p.pc \in {"awaitPost", "posted"}
            => /\ "postMessage" \in Range(p.calls)
               /\ p.lang \notin {"", Undefined}
               /\ ~p.messageResponse.threw /\ p.messageResponse.error = ""
               /\ Len(p.messageResponse.messages) >= 1
               /\ ~p.deeplResponse.threw /\ p.deeplResponse.status = 200
               /\ Len(p.deeplResponse.translations) >= 1
       /\ "postMessage" \in Range(p.calls)
            => p.pc \in {"awaitPost", "posted"} \/ (p.pc = "aborted" /\ p.why = "exception")
       /\ p.why = "no language" => p.calls = <<>>
       /\ p.why \in {"fetch error", "no message"} => p.calls = <<"fetchMessage">>
       /\ p.why \in {"deepl status", "no translation"}
            => p.calls = <<"fetchMessage", "fetchReplies", "translate">>

C9_Witness ==
  \E r \in Passes :
    /\ pass[r].pc = "posted"
    /\ pass[r].calls = <<"fetchMessage", "fetchReplies", "translate", "postMessage">>
    /\ \E q \in Passes : pass[q].why = "no translation"

(***************************************************************************)
(* Properties of repeated events handled one after another (SpecSeq).      *)
(***************************************************************************)
Ended == {"skipped", "posted"}

\* The messages of the thread, the source message included, that have text t.
WithText(t) == {i \in 1..Len(thread) : thread[i].text = t}

\* C5 (as stated): of the passes handled one after another the first posts and
\* every later one skips, and when all have ended exactly one reply of the thread
\* has the translated text.
C5_FirstPostsLaterSkip ==
  /\ \A r \in Passes :
       pass[r].pc \in Ended => (pass[r].pc = "posted" <=> r = 1)
  /\ (nreq > 0 /\ AllEnded)
       => Cardinality(WithText(pass[1].translatedText) \ {1}) = 1

\* C5 (amended): every later pass skips; the first pass posts exactly when no
\* message it read from the thread, the source message included, has the
\* translated text; when all passes have ended the thread has gained one message
\* with that text if the first pass posted, and no message at all otherwise.
C5_OnePostUnlessAlreadyThere ==
  /\ \A r \in Passes :
       pass[r].pc \in Ended
         => /\ r > 1 => pass[r].pc = "skipped"
            /\ pass[r].translatedText = pass[1].translatedText
            /\ r = 1 => (pass[r].pc = "posted"
                           <=> ~ReadHas(pass[r], pass[r].translatedText))
  /\ (nreq > 0 /\ AllEnded)
       => IF pass[1].pc = "posted"
            THEN /\ Cardinality(WithText(pass[1].translatedText)) = 1
                 /\ Len(thread) = Len(pass[1].replies.messages) + 1
                 /\ thread[Len(thread)].text = pass[1].translatedText
          ELSE Len(thread) = Len(pass[1].replies.messages)

C5_Witness ==
  /\ nreq = MaxSeqRequests /\ AllEnded
  /\ pass[1].pc = "posted"
  /\ \A r \in 2..nreq : pass[r].pc = "skipped"
  /\ Cardinality(WithText(pass[1].translatedText)) = 1

\* C20: every request that passes verification carries a timestamp header that
\* is a decimal integer within 300 seconds of the current time; a request whose
\* timestamp header is present but is not a decimal integer is answered 401, also
\* when its signature is the one computed for that header and its body.
C20_VerifiedTimestampIsInteger ==
  /\ (nreq > 0 /\ last.resp.status # 401)
       => /\ IntegerHeader(last.req.timestamp)
          /\ ~OutsideWindow(last.req.timestamp, last.now)
  /\ ( /\ nreq > 0
       /\ last.req.timestamp # Null
       /\ ~IntegerHeader(last.req.timestamp) )
       => last.resp.status = 401

(***************************************************************************)
(* Properties of the markup pipeline (SpecMarkup).                         *)
(***************************************************************************)
RoundTripClasses == {"plain", "mention", "emoji", "link", "bare"}

\* C10: a source text built from plain text, user and channel mentions, emoji
\* shortcodes, links with display text and bare bracketed payloads is returned
\* exactly by protecting and then restoring it, and plain text is left unchanged
\* by each of the two transformations.
C10_RoundTrip ==
  /\ (mk.stage = "restored" /\ mk.classes \subseteq RoundTripClasses)
       => mk.rest = mk.src
  /\ (mk.stage \in {"protected", "restored"} /\ mk.classes \subseteq {"plain"})
       => mk.prot = mk.src

\* The tokens a source text was built from: no token begins another.
RECURSIVE TokensOf(_)
TokensOf(s) ==
  IF s = "" THEN <<>>
  ELSE LET t == CHOOSE t \in SourceTokens : StartsWith(s, t.text)
       IN <<t>> \o TokensOf(From(s, Len(t.text) + 1))

\* The payload of a bracketed token, and its parts around the first | separator.
Payload(t) == SubSeq(t.text, 2, Len(t.text) - 1)

BeforeBar(s) == SubSeq(s, 1, IndexOf(s, "|", 1) - 1)

AfterBar(s) == From(s, IndexOf(s, "|", 1) + 1)

\* What each class of token is to become in the protected text.
ProtectedForm(t) ==
  CASE t.class = "plain"   -> t.text
    [] t.class = "emoji"   -> "<emoji>" \o Payload(t) \o "</emoji>"
    [] t.class = "mention" -> "<mrkdwn>" \o Payload(t) \o "</mrkdwn>"
    [] t.class = "subteam" -> "@[subteam mention removed]"
    [] t.class = "date"    -> "<mrkdwn>" \o Payload(t) \o "</mrkdwn>"
    [] t.class = "special" -> "<ignore>@" \o From(BeforeBar(Payload(t)), 2) \o "</ignore>"
    [] t.class = "link"    -> "<a href=\"" \o BeforeBar(Payload(t)) \o "\">"
                                \o AfterBar(Payload(t)) \o "</a>"
    [] t.class = "bare"    -> "<mrkdwn>" \o Payload(t) \o "</mrkdwn>"

\* What each class of token is to be in the restored text: its bracketed form,
\* but for subteam and other special mentions.
RestoredForm(t) ==
  CASE t.class = "subteam" -> "@[subteam mention removed]"
    [] t.class = "special" -> "@" \o From(BeforeBar(Payload(t)), 2)
    [] OTHER               -> t.text

RECURSIVE Forms(_, _)
Forms(toks, restored) ==
  IF toks = <<>> THEN ""
  ELSE (IF restored THEN RestoredForm(Head(toks)) ELSE ProtectedForm(Head(toks)))
         \o Forms(Tail(toks), restored)

\* C19: the protector gives every bracketed payload of a text the form of the
\* first rule it matches, in the order # or @ (mrkdwn span, also with a |), !subteam
\* (the literal text), !date (mrkdwn span), ! (ignore span of "@" and the text
\* between ! and the first |), | (anchor span), otherwise mrkdwn span; after
\* restoration subteam and other special mentions are not in their bracketed form
\* and every payload of another class is.
C19_ClassifiedByFirstRule ==
  LET toks == TokensOf(mk.src)
  IN /\ mk.stage \in {"protected", "restored"} => mk.prot = Forms(toks, FALSE)
     /\ mk.stage = "restored" => mk.rest = Forms(toks, TRUE)

(***************************************************************************)
(* Properties of the language lookup (SpecLang).                           *)
(***************************************************************************)
CountryCodes == {"jp", "fr", "us", "de", "thumbsup", "", "flag-jp"}

\* The table entry a reaction is to resolve to, Undefined where there is none.
EntryFor(reaction) ==
  CASE reaction \in {"jp", "flag-jp"} -> allReactionToLang.jp
    [] reaction \in {"fr", "flag-fr"} -> allReactionToLang.fr
    [] reaction \in {"us", "flag-us"} -> allReactionToLang.us
    [] OTHER -> Undefined

\* The reaction of the latest request.
LastReaction == CHOOSE r \in Reactions : ReactionBody(r).raw = last.req.body

ThreadOf(message) ==
  IF message.thread_ts \notin {Undefined, ""} THEN message.thread_ts ELSE message.ts

\* C12: a pass that posts addresses its reply to the thread root of the source
\* message when it has one and to the source message's own timestamp otherwise,
\* and the replies it compared were read from that same thread of that same
\* channel.
C12_PostsIntoTheScannedThread ==
  \A r \in Passes :
    LET p == pass[r]
    IN p.pc \in {"awaitPost", "posted"}
         => /\ p.messageResponse.messages[1].ts = p.messageTs
            /\ p.postedThreadTs = ThreadOf(p.messageResponse.messages[1])
            /\ p.repliesTs = p.postedThreadTs
            /\ p.channelId = Channel
            /\ p.replies.hasMessages
                 => /\ p.replies.messages[1].ts = p.postedThreadTs
                    /\ \A i \in 1..Len(p.replies.messages) :
                         ThreadOf(p.replies.messages[i]) = p.postedThreadTs
            /\ thread[1].ts = p.postedThreadTs

C12_Witness ==
  \E r \in Passes :
    /\ pass[r].pc = "posted"
    /\ pass[r].messageTs = ReplyTs
    /\ pass[r].postedThreadTs = RootTs
    /\ pass[r].replies.hasMessages /\ Len(pass[r].replies.messages) = 2

(***************************************************************************)
(* Properties of the bodies that are neither handshake nor event (SpecHttp).*)
(***************************************************************************)
OtherBodies == {BodyFalse, BodyNumber, BodyEmptyObject, BodyOtherType}

Unparseable == nreq > 0 /\ last.req.body = BodyNotJson /\ Genuine

\* C13 (as stated): a genuine request whose body is not JSON is answered 500
\* "Internal Server Error", one whose body is any JSON value that is neither a
\* url_verification nor an event_callback payload is answered 200 "OK", and
\* neither dispatches a task.
C13_OtherJsonOk ==
  /\ Unparseable
       => /\ last.resp.status = 500 /\ last.resp.body = "Internal Server Error"
          /\ ~last.resp.dispatched /\ pass[nreq] = NoPass
  /\ \A b \in OtherBodies \cup {BodyNull} :
       (last.req.body = b.raw /\ Genuine)
         => /\ last.resp.status = 200 /\ last.resp.body = "OK"
            /\ ~last.resp.dispatched /\ pass[nreq] = NoPass

\* C13 (amended): a genuine request whose body is not JSON, or is the JSON value
\* null, is answered 500 "Internal Server Error"; one whose body is any other JSON
\* value that is neither a url_verification nor an event_callback payload is
\* answered 200 "OK"; none of them dispatches a task.
C13_OtherJsonOkUnlessNull ==
  /\ (Unparseable \/ (last.req.body = BodyNull.raw /\ Genuine))
       => /\ last.resp.status = 500 /\ last.resp.body = "Internal Server Error"
          /\ last.resp.parsed <=> last.req.body = BodyNull.raw
          /\ ~last.resp.dispatched /\ pass[nreq] = NoPass
  /\ \A b \in OtherBodies :
       (last.req.body = b.raw /\ Genuine)
         => /\ last.resp.status = 200 /\ last.resp.body = "OK"
            /\ ~last.resp.dispatched /\ pass[nreq] = NoPass

C13_Witness ==
  /\ Genuine
  /\ last.req.body = BodyNull.raw
  /\ last.resp.status = 500
  /\ pass[nreq] = NoPass

(***************************************************************************)
(* Properties of passes that run at the same time (Spec).                  *)
(***************************************************************************)
\* Passes q and r have both issued the post of the same text, each after reading
\* the replies of the thread.
BothPost(q, r) ==
  /\ q # r
  /\ pass[q].pc \in {"awaitPost", "posted"} /\ pass[r].pc \in {"awaitPost", "posted"}
  /\ pass[q].postedText = pass[r].postedText
  /\ pass[q].replies.hasMessages /\ pass[r].replies.hasMessages

\* C14: two passes for the same message and reaction can both post the same text,
\* and do so only when each read the replies of the thread before the other's
\* post was in it: neither saw the text among the replies it read.
C14_DoublePostOnlyByRace ==
  \A q, r \in Passes :
    BothPost(q, r)
      => /\ ~ReadHas(pass[q], pass[q].postedText)
         /\ ~ReadHas(pass[r], pass[r].postedText)

C14_Witness ==
  /\ Len(pass) = 2
  /\ BothPost(1, 2)
  /\ pass[1].pc = "posted" /\ pass[2].pc = "posted"
  /\ pass[1].reaction = pass[2].reaction
  /\ pass[1].messageTs = pass[2].messageTs
  /\ pass[1].channelId = pass[2].channelId
  /\ Cardinality(WithText(pass[1].postedText) \ {1}) = 2

(***************************************************************************)
(* Properties of the order of a pass's steps (SpecSlow).                   *)
(***************************************************************************)
CallOrder == <<"fetchMessage", "fetchReplies", "translate", "postMessage">>

InThread(t) == \E i \in 1..Len(thread) : thread[i].text = t

\* The translation of pass r comes back with a result and the pass decides.
Decides(r) ==
  /\ r \in Passes /\ r \in 1..Len(pass')
  /\ pass[r].pc = "awaitTranslate"
  /\ pass'[r].pc \in {"awaitPost", "skipped"}

\* The steps of a pass come in the order of its calls: nothing before the language
\* is resolved, the translation after the message fetch, the post last.
StepsInOrder(r) ==
  LET p == pass'[r]
  IN /\ p.pc \notin {"none", "aborted"} => p.lang \notin {"", Undefined}
     /\ p.calls # <<>> => Head(p.calls) = "fetchMessage"
     /\ "postMessage" \in Range(p.calls)
          => /\ p.calls[Len(p.calls)] = "postMessage"
             /\ "translate" \in Range(p.calls)
     /\ p.pc \in {"awaitTranslate", "awaitPost", "posted", "skipped"}
          => p.targetText = Protect(p.messageResponse.messages[1].text)
     /\ p.pc \in {"awaitPost", "posted", "skipped"}
          => p.translatedText = Restore(p.deeplResponse.translations[1])

\* C15 (as stated): the steps of a pass come in order, and the duplicate check sees
\* the thread as it is once the translation has come back: a pass that read the
\* replies and whose translated text is in the thread at that moment skips.
C15_ChecksTheThreadAsItIsThen ==
  [][\A r \in 1..Len(pass') :
       /\ StepsInOrder(r)
       /\ (Decides(r) /\ pass[r].replies.hasMessages
             /\ InThread(pass'[r].translatedText))
            => pass'[r].pc = "skipped"]_vars

\* C15 (amended): the steps of a pass come in the order language resolution,
\* message fetch, thread-replies fetch, protection, translation call, restoration,
\* duplicate check, post; the duplicate check compares with the replies read
\* before the translation call, whatever the thread holds by then.
C15_ChecksTheRepliesReadBefore ==
  [][\A r \in 1..Len(pass') :
       /\ StepsInOrder(r)
       /\ pass'[r].calls = SubSeq(CallOrder, 1, Len(pass'[r].calls))
       /\ Decides(r)
            => /\ pass'[r].replies = pass[r].replies
               /\ pass'[r].pc = "skipped"
                    <=> ReadHas(pass[r], pass'[r].translatedText)]_vars

C15_Witness ==
  /\ Len(pass) = 2
  /\ pass[1].pc = "posted" /\ pass[2].pc = "posted"
  /\ pass[1].postedText = pass[2].postedText
  /\ pass[1].messageTs = pass[2].messageTs
  /\ pass[2].replies.hasMessages
  /\ ~ReadHas(pass[2], pass[2].postedText)
  /\ Len(thread) = Len(pass[2].replies.messages) + 2
  /\ thread[Len(thread)].text = pass[2].postedText
  /\ thread[Len(thread) - 1].text = pass[2].postedText

(***************************************************************************)
(* Properties of collaborator failures (Spec).                             *)
(***************************************************************************)
\* C16: when a collaborator call of a pass fails (the message fetch, the
\* thread-replies fetch or the translation call answers with an error or a
\* non-success result, or throws) the pass aborts and posts nothing; a failed
\* thread-replies fetch never leads to a post made without a duplicate check.
C16_FailureAborts ==
  \A r \in Passes :
    LET p == pass[r]
    IN /\ p.pc \in {"awaitReplies", "awaitTranslate", "awaitPost", "posted", "skipped"}
            => ~p.messageResponse.threw /\ p.messageResponse.error = ""
       /\ p.pc \in {"awaitTranslate", "awaitPost", "posted", "skipped"}
            => ~p.replies.threw /\ p.replies.error = ""
       /\ p.pc \in {"awaitPost", "posted", "skipped"}
            => ~p.deeplResponse.threw /\ p.deeplResponse.status = 200
       /\ "postMessage" \in Range(p.calls) /\ p.pc # "aborted"
            => p.replies.hasMessages

(***************************************************************************)
(* Properties of the number of calls (Spec).                               *)
(***************************************************************************)
Times(calls, c) == Cardinality({i \in 1..Len(calls) : calls[i] = c})

\* The replies the passes have added to the thread.
PostedReplies == {i \in 1..Len(thread) : StartsWith(thread[i].ts, "20")}

\* The requests that passed verification and carried a reaction_added event.
Dispatched == {r \in Passes : status[r] = 200 /\ pass[r].pc # "none"}

\* C17: a dispatched reaction event causes at most one message fetch, one
\* thread-replies fetch, one translation call and one post, also after a failure,
\* and a request that dispatched nothing causes none; so the replies posted are
\* never more than the reaction_added events that passed verification.
C17_AtMostOneCallEach ==
  /\ \A r \in Passes :
       /\ \A c \in Range(CallOrder) : Times(pass[r].calls, c) <= 1
       /\ Range(pass[r].calls) \subseteq Range(CallOrder)
       /\ r \notin Dispatched => pass[r].calls = <<>>
  /\ Cardinality(PostedReplies)
       <= Cardinality({r \in Dispatched : "postMessage" \in Range(pass[r].calls)})
  /\ Cardinality(PostedReplies) <= Cardinality(Dispatched)

C17_Witness ==
  /\ \E r \in Passes :
       /\ pass[r].pc = "aborted" /\ pass[r].why = "deepl status"
       /\ pass[r].calls = <<"fetchMessage", "fetchReplies", "translate">>
  /\ \E q \in Passes :
       /\ pass[q].pc = "posted"
       /\ pass[q].calls = CallOrder
  /\ Cardinality(PostedReplies) = 1

(***************************************************************************)
(* Properties of the end of a pass (SpecFair).                             *)
(***************************************************************************)
\* Every pass that was dispatched has ended.
AllPassesEnded == \A r \in Passes : pass[r].pc \in Terminal \cup {"none"}

\* C18: when every collaborator call eventually returns or fails, every dispatched
\* pass eventually reaches one of the terminal states aborted, skipped and posted,
\* and never leaves it: a pass that has ended stays as it is, and from some moment
\* on every pass there is has ended.
C18_EveryPassEnds ==
  /\ <>[]AllPassesEnded
  /\ [][\A r \in Passes : pass[r].pc \in Terminal => pass'[r] = pass[r]]_vars

C18_Witness ==
  \E r \in Passes :
    /\ pass[r].pc = "aborted" /\ pass[r].why = "exception"
    /\ pass[r].calls = CallOrder
    /\ \E q \in Passes : q # r /\ pass[q].pc \in {"skipped", "posted"}

====
